---- MODULE Spec2Model ----
(***************************************************************************)
(* Model of src/pyclaw/classic/solver_cy.pyx: the classic Clawpack solver  *)
(* set-up (ClawSolver.setup, _set_mthlim), the step driver                 *)
(* (ClawSolver.step), the 1D hyperbolic kernel                             *)
(* (ClawSolver1D.step_hyperbolic, Python kernel path) and the three        *)
(* kernel routines godunov_update, compute_max_wave_speed and              *)
(* compute_correction_fluxes.  use_cython is True (line 19), so the        *)
(* *_compiled bodies are the ones that run; the array-expression fallbacks *)
(* are modelled beside them for comparison.  The stepping kernel is        *)
(* modelled for kernel_language 'Python' without a capacity function       *)
(* (state.index_capa < 0); the dtdx computation is modelled for both       *)
(* cases, and the subscripts of the kernel for any number of ghost layers. *)
(* The 'Fortran' branch hands the step to the external routine fmod.step1. *)
(*                                                                         *)
(* Arithmetic.  Every float64 of the program is an integer here.  The      *)
(* inputs are drawn from small integers on which float64 arithmetic is     *)
(* exact; the two halvings of the code (0.5 * (a + b), 0.5 * x, dt / 2.0)  *)
(* and the quotient dt / delta are only ever taken of multiples of the     *)
(* divisor, because dtdx, the waves and the fluctuations are even.         *)
(* Arrays are functions on 0 .. len-1, indexed as in the source.           *)
(***************************************************************************)
EXTENDS Integers, Sequences, FiniteSets, TLC

\* ------------------------------------------------------------------------
\* Bounds of the model
\* ------------------------------------------------------------------------
\* grid.num_cells[0] ranges over 1 .. MaxCells
MaxCells == 3
\* wave speeds returned by the Riemann solver range over -MaxSpeed .. MaxSpeed
MaxSpeed == 1
\* number of wave families (wave.shape[1]) ranges over 1 .. MaxWaves
MaxWaves == 2
\* state.num_eqn ranges over 1 .. MaxEqn in the kernel-routine specifications
MaxEqn == 1
\* number of calls of ClawSolver.step that one behaviour makes
MaxAttempts == 2
\* a list given as solver.limiters has 0 .. MaxLimiters entries
MaxLimiters == 3
\* solver.num_ghost ranges over 1 .. MaxGhost in the index sweep
MaxGhost == 3

\* ------------------------------------------------------------------------
\* Program constants
\* ------------------------------------------------------------------------
\* self.num_ghost = 2
num_ghost == 2
\* use_cython = True
use_cython == TRUE

\* ------------------------------------------------------------------------
\* Value sets the inputs are drawn from
\* ------------------------------------------------------------------------
Speeds == (0 - MaxSpeed) .. MaxSpeed
\* dt / dx of a cell: positive and even
DtdxValues == {2, 4}
\* cell averages, waves and fluctuations: even
EvenValues == {-2, 0, 2}
QValues == {0, 2}

\* 1-D arrays on 0 .. len-1 that are constant but for at most one entry
OneOff1(len, V) ==
  {[i \in 0 .. len - 1 |-> IF i = p THEN v ELSE b] :
      b \in V, p \in 0 .. len - 1, v \in V}

\* 2-D arrays [0 .. rows-1][0 .. len-1] constant but for at most one entry
OneOff2(rows, len, V) ==
  {[r \in 0 .. rows - 1 |-> [i \in 0 .. len - 1 |->
        IF r = pr /\ i = p THEN v ELSE b]] :
      b \in V, pr \in 0 .. rows - 1, p \in 0 .. len - 1, v \in V}

\* 3-D arrays [0 .. eqs-1][0 .. rows-1][0 .. len-1], at most one entry off
OneOff3(eqs, rows, len, V) ==
  {[m \in 0 .. eqs - 1 |-> [r \in 0 .. rows - 1 |-> [i \in 0 .. len - 1 |->
        IF m = pm /\ r = pr /\ i = p THEN v ELSE b]]] :
      b \in V, pm \in 0 .. eqs - 1, pr \in 0 .. rows - 1,
      p \in 0 .. len - 1, v \in V}

Max2(a, b) == IF a >= b THEN a ELSE b
Abs(x) == IF x < 0 THEN 0 - x ELSE x

\* max of a non-empty finite set of integers
SetMax(S) == CHOOSE x \in S : \A y \in S : y <= x

RECURSIVE SumRange(_, _, _)
\* sum of g[i] for lo <= i < hi
SumRange(g, lo, hi) == IF lo >= hi THEN 0 ELSE g[lo] + SumRange(g, lo + 1, hi)

\* number of cells of the ghost-padded arrays, num_cells + 2*num_ghost
Padded(nc) == nc + 2 * num_ghost
\* LL = self.num_ghost - 1
LLof == num_ghost - 1
\* UL = self.num_ghost + grid.num_cells[0] + 1
ULof(nc) == num_ghost + nc + 1

VARIABLES
  \* grid and state
  num_cells,        \* grid.num_cells[0]
  num_eqn,          \* state.num_eqn
  q,                \* state.q, the physical cells: q[m][i], i in 0 .. num_cells-1
  qbc,              \* self.qbc, the ghost-padded working array
  \* solver configuration
  order, fwave, source_split, step_source, cfl_max,
  kernel_language,
  num_dim,          \* self.num_dim
  num_waves,        \* self.num_waves
  limiters,         \* self.limiters, the limiter specification
  mthlim,           \* self._mthlim
  solver_num_ghost, \* self.num_ghost as the index sweep of the kernel sees it
  index_capa,       \* state.index_capa
  aux,              \* state.aux, one row per auxiliary field
  delta,            \* grid.delta[0]
  aspeed,           \* problem data of the Riemann solver: speed at each interface
  bc,               \* boundary policy applied by _apply_bcs
  \* solver state
  dt,               \* self.dt
  cfl,              \* self.cfl, the tracker's _global_max
  \* position in ClawSolver.step and what it has done in this attempt
  pc, result, srcCalls, attempts,
  q_in,             \* state.q as it was when step was called
  \* arguments and results of the kernel routines
  dtdx, apdq, amdq, s, wave, f, cflOut, kpc,
  \* the kernel's index sweep: position of the loop and the indices used
  loop_n, cellIdx, ifaceIdx, workIdx

vars == <<num_cells, num_eqn, q, qbc, order, fwave, limiters, source_split,
          step_source, cfl_max, kernel_language, delta, aspeed, bc, dt, cfl,
          pc, result, srcCalls, attempts,
          dtdx, apdq, amdq, s, wave, f, cflOut, kpc,
          num_dim, num_waves, mthlim, solver_num_ghost, index_capa, aux,
          q_in, loop_n, cellIdx, ifaceIdx, workIdx>>

gridVars == <<num_cells, num_eqn, delta, aspeed, bc>>
configVars == <<order, fwave, limiters, source_split, step_source, cfl_max,
                kernel_language, num_dim, num_waves, solver_num_ghost,
                index_capa, aux>>
stepVars == <<q, dt, cfl, pc, result, srcCalls, attempts, q_in>>
indexVars == <<loop_n, cellIdx, ifaceIdx, workIdx>>
kernelArgs == <<dtdx, apdq, amdq, s, wave>>
kernelOut == <<f, cflOut>>

\* ------------------------------------------------------------------------
\* godunov_update
\* ------------------------------------------------------------------------
RECURSIVE godunov_n_loop_swapped(_, _, _, _, _, _, _)
\* the loop body with the left-going fluctuation scaled by the wrong cell
godunov_n_loop_swapped(p_dtdx, p_apdq, p_amdq, m, n, UL, p_q) ==
  IF n >= UL THEN p_q
  ELSE LET q1 == [p_q EXCEPT ![m][n] = @ - p_dtdx[n] * p_apdq[m][n - 1]]
           q2 == [q1 EXCEPT ![m][n - 1] = @ - p_dtdx[n] * p_amdq[m][n - 1]]
       IN godunov_n_loop_swapped(p_dtdx, p_apdq, p_amdq, m, n + 1, UL, q2)

RECURSIVE godunov_n_loop_rightonly(_, _, _, _, _, _, _)
\* the loop body without the left-going fluctuation
godunov_n_loop_rightonly(p_dtdx, p_apdq, p_amdq, m, n, UL, p_q) ==
  IF n >= UL THEN p_q
  ELSE LET q1 == [p_q EXCEPT ![m][n] = @ - p_dtdx[n] * p_apdq[m][n - 1]]
       IN godunov_n_loop_rightonly(p_dtdx, p_apdq, p_amdq, m, n + 1, UL, q1)

RECURSIVE godunov_n_loop(_, _, _, _, _, _, _)
\* for n in range(LL, UL): the two statements of the loop body, in order
godunov_n_loop(p_dtdx, p_apdq, p_amdq, m, n, UL, p_q) ==
  IF n >= UL THEN p_q
  ELSE LET q1 == [p_q EXCEPT ![m][n] = @ - p_dtdx[n] * p_apdq[m][n - 1]]
           q2 == [q1 EXCEPT ![m][n - 1] = @ - p_dtdx[n - 1] * p_amdq[m][n - 1]]
       IN godunov_n_loop(p_dtdx, p_apdq, p_amdq, m, n + 1, UL, q2)

RECURSIVE godunov_m_loop(_, _, _, _, _, _, _, _)
\* for m in range(num_eqn)
godunov_m_loop(p_dtdx, p_apdq, p_amdq, m, p_num_eqn, LL, UL, p_q) ==
  IF m >= p_num_eqn THEN p_q
  ELSE godunov_m_loop(p_dtdx, p_apdq, p_amdq, m + 1, p_num_eqn, LL, UL,
                      godunov_n_loop(p_dtdx, p_apdq, p_amdq, m, LL, UL, p_q))

godunov_update_compiled(p_dtdx, p_apdq, p_amdq, p_num_eqn, LL, UL, p_q) ==
  godunov_m_loop(p_dtdx, p_apdq, p_amdq, 0, p_num_eqn, LL, UL, p_q)

\* q[m, lo:hi] -= p_dtdx[lo:hi] * p_fluct[m, lo-1+shift : hi-1+shift], one
\* array statement: the right-hand side is evaluated, then subtracted
godunov_slice_update(p_dtdx, p_fluct, m, lo, hi, shift, p_q) ==
  [p_q EXCEPT ![m] = [n \in DOMAIN p_q[m] |->
     IF n >= lo /\ n < hi
     THEN p_q[m][n] - p_dtdx[n] * p_fluct[m][n - 1 + shift]
     ELSE p_q[m][n]]]

\* the fallback with the left-going fluctuations applied one cell too far right
godunov_fallback_m_shifted(p_dtdx, p_apdq, p_amdq, m, LL, UL, p_q) ==
  godunov_slice_update(p_dtdx, p_amdq, m, LL, UL, 0,
     godunov_slice_update(p_dtdx, p_apdq, m, LL, UL, 0, p_q))

\* the body of the fallback loop (lines 384-385):
\*    q[m,LL:UL] -= dtdx[LL:UL]*apdq[m,LL-1:UL-1]
\*    q[m,LL-1:UL-1] -= dtdx[LL-1:UL-1]*amdq[m,LL-1:UL-1]
godunov_fallback_m(p_dtdx, p_apdq, p_amdq, m, LL, UL, p_q) ==
  godunov_slice_update(p_dtdx, p_amdq, m, LL - 1, UL - 1, 1,
     godunov_slice_update(p_dtdx, p_apdq, m, LL, UL, 0, p_q))

RECURSIVE godunov_fallback_loop(_, _, _, _, _, _, _, _)
\* for m in xrange(num_eqn)
godunov_fallback_loop(p_dtdx, p_apdq, p_amdq, m, p_num_eqn, LL, UL, p_q) ==
  IF m >= p_num_eqn THEN p_q
  ELSE godunov_fallback_loop(p_dtdx, p_apdq, p_amdq, m + 1, p_num_eqn, LL, UL,
                             godunov_fallback_m(p_dtdx, p_apdq, p_amdq, m, LL, UL, p_q))

\* godunov_update with use_cython off
godunov_update_fallback(p_dtdx, p_apdq, p_amdq, p_num_eqn, LL, UL, p_q) ==
  godunov_fallback_loop(p_dtdx, p_apdq, p_amdq, 0, p_num_eqn, LL, UL, p_q)

\* if use_cython: return godunov_update_compiled(...)
godunov_update(p_dtdx, p_apdq, p_amdq, p_num_eqn, LL, UL, p_q) ==
  godunov_update_compiled(p_dtdx, p_apdq, p_amdq, p_num_eqn, LL, UL, p_q)

\* ------------------------------------------------------------------------
\* compute_max_wave_speed
\* ------------------------------------------------------------------------
RECURSIVE cfl_loop(_, _, _, _, _, _, _, _)
\* the double loop over mw and n; acc = <<cfl, smax1, smax2>>
cfl_loop(p_dtdx, p_s, mw, n, nw, LL, UL, acc) ==
  IF mw >= nw THEN acc[1]
  ELSE IF n >= UL THEN cfl_loop(p_dtdx, p_s, mw + 1, LL, nw, LL, UL, acc)
  ELSE LET smax1 == Max2(acc[2], p_dtdx[n] * p_s[mw][n - 1])
           smax2 == Max2(acc[3], (0 - p_dtdx[n - 1]) * p_s[mw][n - 1])
           c == Max2(acc[1], Max2(smax1, smax2))
       IN cfl_loop(p_dtdx, p_s, mw, n + 1, nw, LL, UL, <<c, smax1, smax2>>)

\* compute_max_wave_speed_compiled measuring only the right-going side
compute_max_wave_speed_onesided(p_wave, p_dtdx, p_s, LL, UL) ==
  LET nw == Cardinality(DOMAIN p_wave[0])
      Terms == {p_dtdx[n] * p_s[mw][n - 1] : mw \in 0 .. nw - 1, n \in LL .. UL - 1}
  IN SetMax(Terms \cup {0})

\* wave.shape[1] is the number of wave families
compute_max_wave_speed_compiled(p_wave, p_dtdx, p_s, LL, UL) ==
  LET nw == Cardinality(DOMAIN p_wave[0])
  IN cfl_loop(p_dtdx, p_s, 0, LL, nw, LL, UL,
              <<0, p_dtdx[LL] * p_s[0][LL - 1],
                (0 - p_dtdx[LL - 1]) * p_s[0][LL - 1]>>)

\* if use_cython: return compute_max_wave_speed_compiled(...)
compute_max_wave_speed(p_wave, p_dtdx, p_s, LL, UL) ==
  compute_max_wave_speed_compiled(p_wave, p_dtdx, p_s, LL, UL)

\* ------------------------------------------------------------------------
\* compute_correction_fluxes
\* ------------------------------------------------------------------------
\* -1 if x < 0 else 1 if x > 0 else 0
Sign(x) == IF x < 0 THEN 0 - 1 ELSE IF x > 0 THEN 1 ELSE 0
\* 0.5 * x, for the even x the model produces
Half(x) == x \div 2

\* what uninitialised float64 storage (np.empty) may hold
Garbage == {0 - 1, 0, 1, 3}

\* np.zeros((rows, len))
Zeros2(rows, len) == [r \in 0 .. rows - 1 |-> [i \in 0 .. len - 1 |-> 0]]

\* for i in xrange(LL, UL): dtdxave[i - LL] = 0.5 * (dtdx[i - 1] + dtdx[i])
flux_dtdxave(p_dtdx, LL, UL) ==
  [i \in 0 .. UL - LL - 1 |-> Half(p_dtdx[i + LL - 1] + p_dtdx[i + LL])]

\* the n loop of one family: ssign[n] = sign(s[mw, n-1]) for n in [LL, UL).
\* ssign has UL-LL entries, so the stores at n >= UL-LL fall outside it and
\* entries 0 .. LL-1 are never stored to.
flux_ssign(p_s, mw, LL, UL, ssign) ==
  [i \in 0 .. UL - LL - 1 |->
     IF i >= LL /\ i < UL THEN Sign(p_s[mw][i - 1]) ELSE ssign[i]]

RECURSIVE flux_mw_loop(_, _, _, _, _, _, _, _, _, _, _)
\* for mw in xrange(wave.shape[1]); ssign is carried from family to family
flux_mw_loop(p_wave, p_s, p_dtdx, p_num_eqn, LL, UL, p_fwave, mw, nw, p_f, ssign) ==
  IF mw >= nw THEN p_f
  ELSE LET dtdxave == flux_dtdxave(p_dtdx, LL, UL)
           sabs == [i \in 0 .. UL - LL - 1 |-> Abs(p_s[mw][i + LL - 1])]
           om == [i \in 0 .. UL - LL - 1 |-> 1 - sabs[i] * dtdxave[i]]
           ssign1 == IF p_fwave THEN flux_ssign(p_s, mw, LL, UL, ssign) ELSE ssign
           f1 == [m \in 0 .. p_num_eqn - 1 |-> [n \in DOMAIN p_f[m] |->
                    IF n >= LL /\ n < UL
                    THEN p_f[m][n] +
                         Half((IF p_fwave THEN ssign1[n - LL] ELSE sabs[n - LL])
                              * om[n - LL] * p_wave[m][mw][n - 1])
                    ELSE p_f[m][n]]]
       IN flux_mw_loop(p_wave, p_s, p_dtdx, p_num_eqn, LL, UL, p_fwave,
                       mw + 1, nw, f1, ssign1)

\* ssign_empty is the content np.empty hands out for ssign
compute_correction_fluxes_compiled(p_wave, p_s, p_dtdx, p_num_eqn, p_num_ghost, p_num_cells, LL, UL, p_fwave, ssign_empty) ==
  flux_mw_loop(p_wave, p_s, p_dtdx, p_num_eqn, LL, UL, p_fwave, 0,
               Cardinality(DOMAIN p_wave[0]),
               Zeros2(p_num_eqn, p_num_cells + 2 * p_num_ghost), ssign_empty)

\* if use_cython: return compute_correction_fluxes_compiled(...)
compute_correction_fluxes(p_wave, p_s, p_dtdx, p_num_eqn, p_num_ghost, p_num_cells, LL, UL, p_fwave, ssign_empty) ==
  compute_correction_fluxes_compiled(p_wave, p_s, p_dtdx, p_num_eqn, p_num_ghost,
                                     p_num_cells, LL, UL, p_fwave, ssign_empty)

\* the indices at which the compiled path reads or writes its work arrays
\* sabs, om, dtdxave (at n - LL and i - LL) and ssign (stored at n, read at
\* n - LL), n and i in [LL, UL)
flux_work_indices(LL, UL, p_fwave) ==
  {n - LL : n \in LL .. UL - 1}
  \cup (IF p_fwave THEN {n : n \in LL .. UL - 1} ELSE {})

\* the array-expression fallback (lines 445-457): every family adds
\* 0.5 * c * om * wave[m, mw, LL-1:UL-1] to f[m, LL:UL], c = np.sign(s) with
\* fwave and np.abs(s) without
RECURSIVE flux_fallback_loop(_, _, _, _, _, _, _, _, _)
flux_fallback_loop(p_wave, p_s, p_dtdx, p_num_eqn, LL, UL, p_fwave, mw, p_f) ==
  IF mw >= Cardinality(DOMAIN p_wave[0]) THEN p_f
  ELSE LET dtdxave == [i \in 0 .. UL - LL - 1 |->
                         Half(p_dtdx[LL - 1 + i] + p_dtdx[LL + i])]
           sabs == [i \in 0 .. UL - LL - 1 |-> Abs(p_s[mw][LL - 1 + i])]
           om == [i \in 0 .. UL - LL - 1 |-> 1 - sabs[i] * dtdxave[i]]
           ssign == [i \in 0 .. UL - LL - 1 |-> Sign(p_s[mw][LL - 1 + i])]
           f1 == [m \in 0 .. p_num_eqn - 1 |-> [n \in DOMAIN p_f[m] |->
                    IF n >= LL /\ n < UL
                    THEN p_f[m][n] +
                         Half((IF p_fwave THEN ssign[n - LL] ELSE sabs[n - LL])
                              * om[n - LL] * p_wave[m][mw][LL - 1 + (n - LL)])
                    ELSE p_f[m][n]]]
       IN flux_fallback_loop(p_wave, p_s, p_dtdx, p_num_eqn, LL, UL, p_fwave,
                             mw + 1, f1)

\* compute_correction_fluxes with use_cython off
compute_correction_fluxes_fallback(p_wave, p_s, p_dtdx, p_num_eqn, p_num_ghost, p_num_cells, LL, UL, p_fwave) ==
  flux_fallback_loop(p_wave, p_s, p_dtdx, p_num_eqn, LL, UL, p_fwave, 0,
                     Zeros2(p_num_eqn, p_num_cells + 2 * p_num_ghost))

\* if fwave: ssign = np.empty(UL-LL): the contents ssign may start with;
\* without fwave ssign is never allocated
EmptyArrays(len, p_fwave) ==
  IF p_fwave THEN {[i \in 0 .. len - 1 |-> g] : g \in Garbage} ELSE {<<>>}

\* ------------------------------------------------------------------------
\* ClawSolver._set_mthlim
\* ------------------------------------------------------------------------
\* self.limiters and self._mthlim hold either one limiter identifier or a
\* list of them; list tells which (isinstance(x, list)), ids are the entries
Single(v) == [list |-> FALSE, ids |-> <<v>>]
ListOf(sq) == [list |-> TRUE, ids |-> sq]

RECURSIVE Repeat(_, _)
\* sq * k
Repeat(sq, k) == IF k <= 0 THEN <<>> ELSE sq \o Repeat(sq, k - 1)

\* if not isinstance(self.limiters, list): self._mthlim = [self._mthlim]
set_mthlim_wrap(p_limiters) ==
  IF p_limiters.list THEN p_limiters ELSE ListOf(p_limiters.ids)

\* the resolution that never repeats a single entry
set_mthlim_repeat_never(p_mthlim, p_num_waves) == p_mthlim

\* if len(self._mthlim) == 1: self._mthlim = self._mthlim * self.num_waves
set_mthlim_repeat(p_mthlim, p_num_waves) ==
  IF Len(p_mthlim.ids) = 1
  THEN ListOf(Repeat(p_mthlim.ids, p_num_waves))
  ELSE p_mthlim

\* self._mthlim when _set_mthlim is through, and whether it raised
set_mthlim(p_limiters, p_num_waves) ==
  LET m == set_mthlim_repeat(set_mthlim_wrap(p_limiters), p_num_waves)
  IN [mthlim |-> m, raised |-> Len(m.ids) # p_num_waves]

\* the messages of the exceptions raised
LimitersError == "Length of solver.limiters is not equal to 1 or to solver.num_waves"
MultiDError == "Only Fortran kernels are supported in multi-D."
KernelError == "Unrecognized kernel_language; choose 'Fortran' or 'Python'"

\* ------------------------------------------------------------------------
\* Collaborators of the 1D kernel
\* ------------------------------------------------------------------------
\* self._apply_bcs(state): qbc is state.q with num_ghost ghost cells filled on
\* each side, by zero-order extrapolation or periodically
apply_bcs(p_q, nc, p_bc) ==
  [m \in DOMAIN p_q |-> [i \in 0 .. Padded(nc) - 1 |->
     IF i >= num_ghost /\ i < num_ghost + nc THEN p_q[m][i - num_ghost]
     ELSE IF p_bc = "periodic" THEN p_q[m][(i - num_ghost) % nc]
     ELSE IF i < num_ghost THEN p_q[m][0]
     ELSE p_q[m][nc - 1]]]

\* state.set_q_from_qbc(num_ghost, self.qbc): strip the ghost layers
set_q_from_qbc(p_qbc, nc) ==
  [m \in DOMAIN p_qbc |-> [i \in 0 .. nc - 1 |-> p_qbc[m][i + num_ghost]]]

\* self.rp(q_l, q_r, ...): the Riemann solver of scalar advection with speed
\* a[i] at interface i (between cells i and i+1), one wave family.
\* q_l = q[:, :-1], q_r = q[:, 1:], so there are Padded - 1 interfaces.
\* With fwave the wave carries the flux jump a * dq.
rp_s(a) == [mw \in {0} |-> a]
rp_wave(p_q, a, p_fwave) ==
  [m \in DOMAIN p_q |-> [mw \in {0} |-> [i \in DOMAIN a |->
     (IF p_fwave THEN a[i] ELSE 1) * (p_q[m][i + 1] - p_q[m][i])]]]
rp_amdq(p_q, a) ==
  [m \in DOMAIN p_q |-> [i \in DOMAIN a |->
     (IF a[i] < 0 THEN a[i] ELSE 0) * (p_q[m][i + 1] - p_q[m][i])]]
rp_apdq(p_q, a) ==
  [m \in DOMAIN p_q |-> [i \in DOMAIN a |->
     (IF a[i] > 0 THEN a[i] ELSE 0) * (p_q[m][i + 1] - p_q[m][i])]]

\* tvd.limit(num_eqn, wave, s, limiter, dtdx) with the minmod limiter, for one
\* equation: at every interface but the first and the last the wave is
\* multiplied by max(0, min(1, r)), r the ratio of the upwind wave to it
tvd_limit(p_wave, p_s) ==
  [m \in DOMAIN p_wave |-> [mw \in DOMAIN p_wave[m] |->
     LET w == p_wave[m][mw]
         last == Cardinality(DOMAIN w) - 1
     IN [i \in DOMAIN w |->
           IF i = 0 \/ i = last \/ w[i] = 0 THEN w[i]
           ELSE LET up == IF p_s[mw][i] > 0 THEN w[i - 1] ELSE w[i + 1]
                IN IF up * w[i] <= 0 THEN 0
                   ELSE IF Abs(up) >= Abs(w[i]) THEN w[i]
                   ELSE up]]]

\* ------------------------------------------------------------------------
\* ClawSolver1D.step_hyperbolic, kernel_language == 'Python'
\* ------------------------------------------------------------------------
\* dtdx = np.zeros(2*num_ghost + num_cells); dtdx += self.dt/grid.delta[0]
\* (state.index_capa < 0: no capacity function)
hyperbolic_dtdx(nc, p_dt, p_delta) ==
  [i \in 0 .. Padded(nc) - 1 |-> p_dt \div p_delta]

\* dtdx = self.dt / (grid.delta[0] * state.aux[state.index_capa,:]): one
\* entry per entry of the row of state.aux
hyperbolic_dtdx_capa(p_dt, p_delta, p_capa) ==
  [i \in DOMAIN p_capa |-> p_dt \div (p_delta * p_capa[i])]

\* lines 314-320: dtdx as the kernel routines receive it
hyperbolic_dtdx_any(nc, p_dt, p_delta, p_index_capa, p_aux) ==
  IF p_index_capa >= 0
  THEN hyperbolic_dtdx_capa(p_dt, p_delta, p_aux[p_index_capa])
  ELSE hyperbolic_dtdx(nc, p_dt, p_delta)

\* the differencing with the flux of the cell's own left interface twice
apply_correction_fluxes_stuck(p_q, p_dtdx, p_f, p_num_eqn, LL, UL) ==
  [m \in DOMAIN p_q |-> [n \in DOMAIN p_q[m] |->
     IF m < p_num_eqn /\ n >= LL /\ n < UL - 1
     THEN p_q[m][n] - p_dtdx[n] * (p_f[m][n + 1] - p_f[m][n - 1])
     ELSE p_q[m][n]]]

\* for m in xrange(num_eqn):
\*    q[m,LL:UL-1] -= dtdx[LL:UL-1] * (f[m,LL+1:UL] - f[m,LL:UL-1])
apply_correction_fluxes(p_q, p_dtdx, p_f, p_num_eqn, LL, UL) ==
  [m \in DOMAIN p_q |-> [n \in DOMAIN p_q[m] |->
     IF m < p_num_eqn /\ n >= LL /\ n < UL - 1
     THEN p_q[m][n] - p_dtdx[n] * (p_f[m][n + 1] - p_f[m][n])
     ELSE p_q[m][n]]]

\* limiter = np.array(self._mthlim, ndmin=1)
limiter_array(p_mthlim) == p_mthlim.ids

\* the wave array the correction fluxes are computed from (lines 352-355):
\* if (limiter > 0).any(): wave = tvd.limit(...)
hyperbolic_limited_wave(p_wave, p_s, p_mthlim) ==
  LET limiter == limiter_array(p_mthlim)
  IN IF \E i \in DOMAIN limiter : limiter[i] > 0
     THEN tvd_limit(p_wave, p_s) ELSE p_wave

\* the sweep over all interfaces the Riemann solver returned
hyperbolic_cfl_all(p_qbc, nc, p_dt, p_delta, a, p_fwave) ==
  LET dx == hyperbolic_dtdx(nc, p_dt, p_delta)
  IN compute_max_wave_speed(rp_wave(p_qbc, a, p_fwave), dx, rp_s(a),
                            LLof, Padded(nc))

\* cfl = compute_max_wave_speed(wave, dtdx, s, LL, UL)
hyperbolic_cfl(p_qbc, nc, p_dt, p_delta, a, p_fwave) ==
  LET dx == hyperbolic_dtdx(nc, p_dt, p_delta)
  IN compute_max_wave_speed(rp_wave(p_qbc, a, p_fwave), dx, rp_s(a),
                            LLof, ULof(nc))

\* f = compute_correction_fluxes(wave, s, dtdx, ...) of the limited waves
hyperbolic_f(p_qbc, nc, neq, p_dt, p_delta, a, p_fwave, p_mthlim, ssign_empty) ==
  LET dx == hyperbolic_dtdx(nc, p_dt, p_delta)
      w == hyperbolic_limited_wave(rp_wave(p_qbc, a, p_fwave), rp_s(a), p_mthlim)
  IN compute_correction_fluxes(w, rp_s(a), dx, neq, num_ghost, nc,
                               LLof, ULof(nc), p_fwave, ssign_empty)

\* q after godunov_update(dtdx, apdq, amdq, num_eqn, LL, UL, q)
hyperbolic_first_order(p_qbc, nc, neq, p_dt, p_delta, a) ==
  godunov_update(hyperbolic_dtdx(nc, p_dt, p_delta), rp_apdq(p_qbc, a),
                 rp_amdq(p_qbc, a), neq, LLof, ULof(nc), p_qbc)

\* self.qbc when the Python branch is through: the Godunov update and, if
\* self.order == 2, the differenced correction fluxes
hyperbolic_qbc(p_qbc, nc, neq, p_dt, p_delta, a, p_order, p_fwave, p_mthlim, ssign_empty) ==
  LET q1 == hyperbolic_first_order(p_qbc, nc, neq, p_dt, p_delta, a)
  IN IF p_order = 2
     THEN apply_correction_fluxes(q1, hyperbolic_dtdx(nc, p_dt, p_delta),
             hyperbolic_f(p_qbc, nc, neq, p_dt, p_delta, a, p_fwave, p_mthlim,
                          ssign_empty),
             neq, LLof, ULof(nc))
     ELSE q1

\* ------------------------------------------------------------------------
\* The CFL tracker self.cfl
\* ------------------------------------------------------------------------
\* self.cfl.set_global_max(v)
set_global_max(tracker, v) == v
\* self.cfl.update_global_max(c): the running maximum
update_global_max(tracker, c) == Max2(tracker, c)
\* self.cfl.get_cached_max()
get_cached_max(tracker) == tracker

\* ------------------------------------------------------------------------
\* ClawSolver.step
\* ------------------------------------------------------------------------
\* the step sizes self.get_dt(...) may select
DtValues == {4, 8}
CflMaxValues == {2, 4}

\* step_source(solver, state, dt): a source term of constant rate 2,
\* integrated over h, on every cell of state.q
step_source_effect(p_q, h) ==
  [m \in DOMAIN p_q |-> [i \in DOMAIN p_q[m] |-> p_q[m][i] + 2 * h]]

RECURSIVE step_source_all(_, _)
\* the calls of step_source listed in calls, in order
step_source_all(p_q, calls) ==
  IF calls = <<>> THEN p_q
  ELSE step_source_all(step_source_effect(p_q, Head(calls).dt), Tail(calls))

\* the step without the reset of the tracker
step_reset_skipped(tracker) == tracker

\* self.cfl.set_global_max(0.)
step_reset(tracker) == set_global_max(tracker, 0)

\* the first half step taken with the full dt
step_source_before_full(p_split, p_src, p_dt) ==
  IF p_split = 2 /\ p_src THEN <<[dt |-> p_dt, phase |-> "before"]>> ELSE <<>>

\* if self.source_split == 2 and self.step_source is not None:
\*     self.step_source(self, solution.states[0], self.dt/2.0)
step_source_before(p_split, p_src, p_dt) ==
  IF p_split = 2 /\ p_src THEN <<[dt |-> Half(p_dt), phase |-> "before"]>> ELSE <<>>

\* the calls of lines 142-149
step_source_after(p_split, p_src, p_dt) ==
  IF p_src
  THEN (IF p_split = 2 THEN <<[dt |-> Half(p_dt), phase |-> "after"]>> ELSE <<>>)
       \o (IF p_split = 1 THEN <<[dt |-> p_dt, phase |-> "after"]>> ELSE <<>>)
  ELSE <<>>

\* the rejection test passing a CFL equal to cfl_max
step_rejects_strict(tracker, p_cfl_max) == get_cached_max(tracker) > p_cfl_max

\* if self.cfl.get_cached_max() >= self.cfl_max: return False
step_rejects(tracker, p_cfl_max) == get_cached_max(tracker) >= p_cfl_max

\* the tail with the source integrated before the CFL is looked at
step_tail_source_first(tracker, p_cfl_max, p_split, p_src, p_dt) ==
  [result |-> IF step_rejects(tracker, p_cfl_max) THEN "False" ELSE "True",
   calls |-> step_source_after(p_split, p_src, p_dt)]

\* lines 139-151: the value returned and the calls of step_source made
step_tail(tracker, p_cfl_max, p_split, p_src, p_dt) ==
  IF step_rejects(tracker, p_cfl_max)
  THEN [result |-> "False", calls |-> <<>>]
  ELSE [result |-> "True", calls |-> step_source_after(p_split, p_src, p_dt)]

\* the step that would put back on rejection the q it was called with
step_rejected_state_restored(p_q, p_q_in) == p_q_in

\* return False (line 140): state.q stays what step_hyperbolic copied back;
\* step keeps no copy of the q it was called with
step_rejected_state(p_q, p_q_in) == p_q

\* ClawSolver.setup(solution), kernel_language other than 'Fortran'
\* ('Fortran' imports the external module and packs its parameters)
Setup ==
  /\ pc = "new"
  /\ LET r == set_mthlim(limiters, num_waves)
     IN /\ mthlim' = r.mthlim
        /\ IF r.raised
           THEN result' = LimitersError /\ pc' = "failed"
           ELSE IF kernel_language = "Fortran"
           THEN UNCHANGED result /\ pc' = "idle"
           ELSE IF num_dim > 1
           THEN result' = MultiDError /\ pc' = "failed"
           ELSE UNCHANGED result /\ pc' = "idle"
  /\ UNCHANGED <<gridVars, configVars, kernelArgs, kernelOut, indexVars, q, qbc,
                 dt, cfl, srcCalls, attempts, q_in, kpc>>

\* self.get_dt(solution.t, tstart, tend, take_one_step): a new call of step
GetDt ==
  /\ pc = "idle"
  /\ attempts < MaxAttempts
  /\ dt' \in DtValues
  /\ attempts' = attempts + 1
  /\ result' = "none"
  /\ srcCalls' = <<>>
  /\ q_in' = q
  /\ cflOut' = 0 - 1
  /\ pc' = "reset"
  /\ UNCHANGED <<gridVars, configVars, kernelArgs, indexVars, mthlim, q, qbc,
                 cfl, f, kpc>>

ResetCfl ==
  /\ pc = "reset"
  /\ cfl' = step_reset(cfl)
  /\ pc' = "strang"
  /\ UNCHANGED <<gridVars, configVars, kernelArgs, kernelOut, indexVars, mthlim,
                 q, qbc, dt, result, srcCalls, attempts, q_in, kpc>>

StrangHalfStep ==
  /\ pc = "strang"
  /\ LET calls == step_source_before(source_split, step_source, dt)
     IN /\ q' = step_source_all(q, calls)
        /\ srcCalls' = srcCalls \o calls
  /\ pc' = "hyperbolic"
  /\ UNCHANGED <<gridVars, configVars, kernelArgs, kernelOut, indexVars, mthlim,
                 qbc, dt, cfl, result, attempts, q_in, kpc>>

\* step_hyperbolic, Python branch: boundary fill, kernel, tracker update,
\* copy back
HyperbolicEffect ==
  \E e \in EmptyArrays(ULof(num_cells) - LLof, fwave /\ order = 2) :
    LET qb == apply_bcs(q, num_cells, bc)
    IN /\ qbc' = hyperbolic_qbc(qb, num_cells, num_eqn, dt, delta, aspeed,
                                order, fwave, mthlim, e)
       /\ cflOut' = hyperbolic_cfl(qb, num_cells, dt, delta, aspeed, fwave)
       /\ f' = IF order = 2
               THEN hyperbolic_f(qb, num_cells, num_eqn, dt, delta, aspeed,
                                 fwave, mthlim, e)
               ELSE <<>>
       /\ cfl' = update_global_max(cfl, cflOut')
       /\ q' = set_q_from_qbc(qbc', num_cells)

\* self.step_hyperbolic(solution)
StepHyperbolic ==
  /\ pc = "hyperbolic"
  /\ IF kernel_language = "Python"
     THEN /\ HyperbolicEffect
          /\ pc' = "tail"
          /\ UNCHANGED result
     ELSE \* raise Exception("Unrecognized kernel_language; ...")
          /\ qbc' = apply_bcs(q, num_cells, bc)
          /\ result' = KernelError
          /\ pc' = "idle"
          /\ UNCHANGED <<q, cfl, cflOut, f>>
  /\ UNCHANGED <<gridVars, configVars, kernelArgs, indexVars, mthlim, dt,
                 srcCalls, attempts, q_in, kpc>>

StepTail ==
  /\ pc = "tail"
  /\ LET r == step_tail(cfl, cfl_max, source_split, step_source, dt)
     IN /\ result' = r.result
        /\ q' = IF r.result = "False"
                THEN step_rejected_state(q, q_in)
                ELSE step_source_all(q, r.calls)
        /\ srcCalls' = srcCalls \o r.calls
  /\ pc' = "idle"
  /\ UNCHANGED <<gridVars, configVars, kernelArgs, kernelOut, indexVars, mthlim,
                 qbc, dt, cfl, attempts, q_in, kpc>>

\* the kernel-routine variables when no kernel routine is under test
KernelIdle ==
  /\ dtdx = <<>> /\ apdq = <<>> /\ amdq = <<>> /\ s = <<>> /\ wave = <<>>
  /\ f = <<>> /\ cflOut = 0 - 1 /\ kpc = "none"

\* the step-driver variables when ClawSolver.step is not under test
DriverIdle ==
  /\ pc = "none" /\ result = "none" /\ srcCalls = <<>> /\ attempts = 0
  /\ q_in = <<>>

\* the index sweep when it is not under test
IndexIdle ==
  /\ loop_n = 0 /\ cellIdx = {} /\ ifaceIdx = {} /\ workIdx = {}

\* a 1D solver with the default ghost layers and no capacity function
PlainSolver1D ==
  /\ num_dim = 1 /\ solver_num_ghost = num_ghost
  /\ index_capa = 0 - 1 /\ aux = <<>>

\* limiter v for each of nw wave families, as _set_mthlim resolved it
LimiterResolved(nw, v) ==
  /\ num_waves = nw
  /\ limiters = Single(v)
  /\ mthlim = set_mthlim(limiters, num_waves).mthlim

\* one equation, no source term configured
ScalarArrays(nc) == {[m \in {0} |-> a] : a \in OneOff1(nc, QValues)}

\* the solver on a grid of num_cells cells, before setup is called; the
\* Riemann solver has one wave family.  In more than one dimension the
\* configurations are those setup refuses.
InitStep ==
  /\ num_cells \in 1 .. MaxCells
  /\ num_eqn = 1
  /\ q \in ScalarArrays(num_cells)
  /\ qbc = Zeros2(1, Padded(num_cells))
  /\ kernel_language \in {"Python", "Other"}
  /\ order \in (IF kernel_language = "Python" THEN {1, 2} ELSE {2})
  /\ fwave = FALSE
  /\ num_dim \in {1, 2}
  /\ num_waves = 1
  /\ limiters \in {Single(1), ListOf(<<1, 1>>)}
  /\ mthlim = limiters
  /\ solver_num_ghost = num_ghost /\ index_capa = 0 - 1 /\ aux = <<>>
  /\ source_split \in 0 .. 2
  /\ step_source \in BOOLEAN
  /\ cfl_max \in CflMaxValues
  /\ delta = 2
  /\ aspeed \in {[i \in 0 .. Padded(num_cells) - 2 |-> a] : a \in Speeds}
  /\ bc = "extrap"
  /\ dt = 4
  /\ cfl = 0
  /\ pc = "new" /\ result = "none" /\ srcCalls = <<>> /\ attempts = 0
  /\ q_in = q
  /\ KernelIdle
  /\ IndexIdle

NextStep ==
  Setup \/ GetDt \/ ResetCfl \/ StrangHalfStep \/ StepHyperbolic \/ StepTail

\* ClawSolver.setup, then ClawSolver.step called up to MaxAttempts times
SpecStep == InitStep /\ [][NextStep]_vars

\* ------------------------------------------------------------------------
\* ClawSolver1D.step_hyperbolic called on its own
\* ------------------------------------------------------------------------
OrderConfigs ==
  {<<1, FALSE, 1>>} \cup {<<2, fw, lim>> : fw \in BOOLEAN, lim \in {0, 1}}

InitHyperbolic ==
  /\ num_cells \in 1 .. MaxCells
  /\ num_eqn = 1
  /\ q \in ScalarArrays(num_cells)
  /\ qbc = Zeros2(1, Padded(num_cells))
  /\ kernel_language = "Python"
  /\ \E oc \in OrderConfigs :
        order = oc[1] /\ fwave = oc[2] /\ LimiterResolved(1, oc[3])
  /\ PlainSolver1D
  /\ IndexIdle
  /\ source_split = 1
  /\ step_source = FALSE
  /\ cfl_max = 4
  /\ delta = 2
  /\ aspeed \in OneOff1(Padded(num_cells) - 1, Speeds)
  /\ bc \in {"extrap", "periodic"}
  /\ dt \in DtValues
  /\ cfl = 0
  /\ DriverIdle
  /\ dtdx = <<>> /\ apdq = <<>> /\ amdq = <<>> /\ s = <<>> /\ wave = <<>>
  /\ f = <<>> /\ cflOut = 0 - 1 /\ kpc = "call"

HyperbolicCall ==
  /\ kpc = "call"
  /\ HyperbolicEffect
  /\ kpc' = "done"
  /\ UNCHANGED <<gridVars, configVars, kernelArgs, indexVars, mthlim, dt, pc,
                 result, srcCalls, attempts, q_in>>

SpecHyperbolic == InitHyperbolic /\ [][HyperbolicCall]_vars

\* ------------------------------------------------------------------------
\* The kernel routines called on their own
\* ------------------------------------------------------------------------
\* dtdx arrays: uniform, increasing, alternating
DtdxArrays(len) ==
  {[i \in 0 .. len - 1 |-> 2],
   [i \in 0 .. len - 1 |-> 2 * (i + 1)],
   [i \in 0 .. len - 1 |-> IF i % 2 = 0 THEN 4 ELSE 2]}

\* what the routine specifications leave alone
RoutineIdle ==
  /\ q = <<>>
  /\ order = 2 /\ source_split = 1 /\ step_source = FALSE
  /\ cfl_max = 4 /\ kernel_language = "Python" /\ delta = 2 /\ aspeed = <<>>
  /\ bc = "extrap" /\ dt = 4 /\ cfl = 0
  /\ DriverIdle
  /\ PlainSolver1D
  /\ IndexIdle

InitGodunov ==
  /\ num_cells \in 1 .. MaxCells
  /\ num_eqn \in 1 .. MaxEqn
  /\ dtdx \in DtdxArrays(Padded(num_cells))
  /\ apdq \in OneOff2(num_eqn, Padded(num_cells) - 1, EvenValues)
  /\ amdq \in OneOff2(num_eqn, Padded(num_cells) - 1, EvenValues)
  /\ qbc = [m \in 0 .. num_eqn - 1 |-> [i \in 0 .. Padded(num_cells) - 1 |->
              2 * (i + m)]]
  /\ s = <<>> /\ wave = <<>> /\ f = <<>> /\ cflOut = 0 - 1 /\ fwave = FALSE
  /\ LimiterResolved(1, 1)
  /\ kpc = "args"
  /\ RoutineIdle

\* godunov_update(dtdx, apdq, amdq, num_eqn, LL, UL, q), q updated in place
GodunovCall ==
  /\ kpc = "args"
  /\ qbc' = godunov_update(dtdx, apdq, amdq, num_eqn, LLof, ULof(num_cells), qbc)
  /\ kpc' = "godunov"
  /\ UNCHANGED <<gridVars, configVars, stepVars, kernelArgs, kernelOut,
                 indexVars, mthlim>>

SpecGodunov == InitGodunov /\ [][GodunovCall]_vars

InitCfl ==
  /\ num_cells \in 1 .. MaxCells
  /\ num_eqn = 1
  /\ \E nw \in 1 .. MaxWaves :
        /\ wave = [m \in {0} |-> Zeros2(nw, Padded(num_cells) - 1)]
        /\ s \in OneOff2(nw, Padded(num_cells) - 1, Speeds)
        /\ LimiterResolved(nw, 1)
  /\ dtdx \in DtdxArrays(Padded(num_cells))
  /\ apdq = <<>> /\ amdq = <<>> /\ qbc = <<>> /\ f = <<>> /\ cflOut = 0 - 1
  /\ fwave = FALSE
  /\ kpc = "args"
  /\ RoutineIdle

\* cfl = compute_max_wave_speed(wave, dtdx, s, LL, UL)
CflCall ==
  /\ kpc = "args"
  /\ cflOut' = compute_max_wave_speed(wave, dtdx, s, LLof, ULof(num_cells))
  /\ kpc' = "cfl"
  /\ UNCHANGED <<gridVars, configVars, stepVars, kernelArgs, indexVars, mthlim,
                 qbc, f>>

SpecCfl == InitCfl /\ [][CflCall]_vars

InitFlux ==
  /\ num_cells \in 1 .. MaxCells
  /\ num_eqn \in 1 .. MaxEqn
  /\ \E nw \in 1 .. MaxWaves :
        /\ wave \in OneOff3(num_eqn, nw, Padded(num_cells) - 1, QValues)
        /\ s \in OneOff2(nw, Padded(num_cells) - 1, Speeds)
        /\ LimiterResolved(nw, 1)
  /\ dtdx \in DtdxArrays(Padded(num_cells))
  /\ fwave \in BOOLEAN
  /\ apdq = <<>> /\ amdq = <<>> /\ qbc = <<>> /\ f = <<>> /\ cflOut = 0 - 1
  /\ kpc = "args"
  /\ RoutineIdle

\* f = compute_correction_fluxes(wave, s, dtdx, num_eqn, num_ghost,
\*                               num_cells, LL, UL, fwave)
FluxCall ==
  /\ kpc = "args"
  /\ \E e \in EmptyArrays(ULof(num_cells) - LLof, fwave) :
        f' = compute_correction_fluxes(wave, s, dtdx, num_eqn, num_ghost,
                                       num_cells, LLof, ULof(num_cells), fwave, e)
  /\ workIdx' = flux_work_indices(LLof, ULof(num_cells), fwave)
  /\ kpc' = "flux"
  /\ UNCHANGED <<gridVars, configVars, stepVars, kernelArgs, mthlim, qbc, cflOut,
                 loop_n, cellIdx, ifaceIdx>>

SpecFlux == InitFlux /\ [][FluxCall]_vars

\* ------------------------------------------------------------------------
\* The dtdx computation of step_hyperbolic on its own
\* ------------------------------------------------------------------------
\* values of a capacity function and of grid.delta[0]: positive
CapaValues == {1, 2}
DeltaValues == {1, 2}

\* state.aux with one field, the capacity function: num_aux x num_cells,
\* without ghost cells (the ghost-padded copy is self.auxbc)
CapacityAux(nc) == {[r \in {0} |-> row] : row \in OneOff1(nc, CapaValues)}

InitDtdx ==
  /\ num_cells \in 1 .. MaxCells
  /\ num_eqn = 1
  /\ dt \in DtValues
  /\ delta \in DeltaValues
  /\ \/ index_capa = 0 - 1 /\ aux = <<>>
     \/ index_capa = 0 /\ aux \in CapacityAux(num_cells)
  /\ num_dim = 1 /\ solver_num_ghost = num_ghost
  /\ q = <<>> /\ qbc = <<>>
  /\ order = 2 /\ fwave = FALSE /\ LimiterResolved(1, 1)
  /\ source_split = 1 /\ step_source = FALSE /\ cfl_max = 4
  /\ kernel_language = "Python" /\ aspeed = <<>> /\ bc = "extrap" /\ cfl = 0
  /\ DriverIdle
  /\ IndexIdle
  /\ dtdx = <<>> /\ apdq = <<>> /\ amdq = <<>> /\ s = <<>> /\ wave = <<>>
  /\ f = <<>> /\ cflOut = 0 - 1 /\ kpc = "args"

\* lines 314-320 of step_hyperbolic
DtdxCall ==
  /\ kpc = "args"
  /\ dtdx' = hyperbolic_dtdx_any(num_cells, dt, delta, index_capa, aux)
  /\ kpc' = "dtdx"
  /\ UNCHANGED <<gridVars, configVars, stepVars, kernelOut, indexVars, mthlim,
                 qbc, apdq, amdq, s, wave>>

SpecDtdx == InitDtdx /\ [][DtdxCall]_vars

\* ------------------------------------------------------------------------
\* The subscripts of the 1D kernel
\* ------------------------------------------------------------------------
\* LL = self.num_ghost - 1
sweep_LL(p_num_ghost) == p_num_ghost - 1
\* UL = self.num_ghost + grid.num_cells[0] + 1
sweep_UL(p_num_ghost, nc) == p_num_ghost + nc + 1
\* length of q, dtdx and f along the grid: 2*self.num_ghost + num_cells
padded_cells(p_num_ghost, nc) == 2 * p_num_ghost + nc
\* number of interfaces the Riemann solver returns: q_l = q[:, :-1]
riemann_interfaces(p_num_ghost, nc) == padded_cells(p_num_ghost, nc) - 1

\* The subscripts are recorded with the value the source expression has,
\* n - 1 being -1 for n = 0 (as an unsigned int it is 2^32 - 1).
\* godunov_update_compiled, iteration n: q[m,n], dtdx[n], q[m,n-1], dtdx[n-1]
godunov_cells(n) == {n, n - 1}
\* ... and apdq[m,n-1], amdq[m,n-1]
godunov_interfaces(n) == {n - 1}
\* compute_max_wave_speed_compiled, iteration n: dtdx[n], dtdx[n-1]
cfl_cells(n) == {n, n - 1}
\* ... and s[mw,n-1]
cfl_interfaces(n) == {n - 1}
\* compute_correction_fluxes_compiled, iteration n (and i): dtdx[i-1],
\* dtdx[i], f[m,n]
flux_cells(n) == {n - 1, n}
\* ... and s[mw,n-1], wave[m,mw,n-1]
flux_interfaces(n) == {n - 1}
\* q[m,LL:UL-1], dtdx[LL:UL-1], f[m,LL+1:UL], f[m,LL:UL-1]
diff_cells(LL, UL) == (LL .. UL - 2) \cup (LL + 1 .. UL - 1)

InitIndices ==
  /\ num_cells \in 1 .. MaxCells
  /\ solver_num_ghost \in 1 .. MaxGhost
  /\ order \in (IF solver_num_ghost >= 2 THEN {1, 2} ELSE {1})
  /\ num_eqn = 1 /\ fwave = FALSE /\ LimiterResolved(1, 1)
  /\ num_dim = 1 /\ index_capa = 0 - 1 /\ aux = <<>>
  /\ q = <<>> /\ qbc = <<>>
  /\ source_split = 1 /\ step_source = FALSE /\ cfl_max = 4
  /\ kernel_language = "Python" /\ delta = 2 /\ aspeed = <<>>
  /\ bc = "extrap" /\ dt = 4 /\ cfl = 0
  /\ DriverIdle
  /\ dtdx = <<>> /\ apdq = <<>> /\ amdq = <<>> /\ s = <<>> /\ wave = <<>>
  /\ f = <<>> /\ cflOut = 0 - 1
  /\ kpc = "godunov"
  /\ loop_n = sweep_LL(solver_num_ghost)
  /\ cellIdx = {} /\ ifaceIdx = {} /\ workIdx = {}

\* what the index sweep leaves alone
IndexFrame ==
  UNCHANGED <<gridVars, configVars, stepVars, kernelArgs, kernelOut, mthlim,
              qbc, workIdx>>

\* one iteration of for n in range(LL, UL) in godunov_update_compiled
GodunovIndexStep ==
  /\ kpc = "godunov"
  /\ loop_n < sweep_UL(solver_num_ghost, num_cells)
  /\ cellIdx' = cellIdx \cup godunov_cells(loop_n)
  /\ ifaceIdx' = ifaceIdx \cup godunov_interfaces(loop_n)
  /\ loop_n' = loop_n + 1
  /\ UNCHANGED kpc
  /\ IndexFrame

\* godunov_update returns; compute_max_wave_speed_compiled initialises smax1
\* and smax2 from dtdx[LL], dtdx[LL-1] and s[0,LL-1]
CflIndexEnter ==
  /\ kpc = "godunov"
  /\ loop_n >= sweep_UL(solver_num_ghost, num_cells)
  /\ LET LL == sweep_LL(solver_num_ghost)
     IN /\ cellIdx' = cellIdx \cup {LL, LL - 1}
        /\ ifaceIdx' = ifaceIdx \cup {LL - 1}
        /\ loop_n' = LL
  /\ kpc' = "cfl"
  /\ IndexFrame

\* one iteration of for n in xrange(LL, UL) in compute_max_wave_speed_compiled
CflIndexStep ==
  /\ kpc = "cfl"
  /\ loop_n < sweep_UL(solver_num_ghost, num_cells)
  /\ cellIdx' = cellIdx \cup cfl_cells(loop_n)
  /\ ifaceIdx' = ifaceIdx \cup cfl_interfaces(loop_n)
  /\ loop_n' = loop_n + 1
  /\ UNCHANGED kpc
  /\ IndexFrame

\* if self.order == 2: on to the correction fluxes, else the kernel is through
CflIndexLeave ==
  /\ kpc = "cfl"
  /\ loop_n >= sweep_UL(solver_num_ghost, num_cells)
  /\ loop_n' = sweep_LL(solver_num_ghost)
  /\ kpc' = IF order = 2 THEN "flux" ELSE "done"
  /\ UNCHANGED <<cellIdx, ifaceIdx>>
  /\ IndexFrame

\* the iterations with index n of the loops of compute_correction_fluxes_compiled
FluxIndexStep ==
  /\ kpc = "flux"
  /\ loop_n < sweep_UL(solver_num_ghost, num_cells)
  /\ cellIdx' = cellIdx \cup flux_cells(loop_n)
  /\ ifaceIdx' = ifaceIdx \cup flux_interfaces(loop_n)
  /\ loop_n' = loop_n + 1
  /\ UNCHANGED kpc
  /\ IndexFrame

\* the differencing of the correction fluxes (line 362)
DiffIndexStep ==
  /\ kpc = "flux"
  /\ loop_n >= sweep_UL(solver_num_ghost, num_cells)
  /\ cellIdx' = cellIdx \cup diff_cells(sweep_LL(solver_num_ghost),
                                        sweep_UL(solver_num_ghost, num_cells))
  /\ kpc' = "done"
  /\ UNCHANGED <<ifaceIdx, loop_n>>
  /\ IndexFrame

NextIndices ==
  \/ GodunovIndexStep \/ CflIndexEnter \/ CflIndexStep \/ CflIndexLeave
  \/ FluxIndexStep \/ DiffIndexStep

SpecIndices == InitIndices /\ [][NextIndices]_vars

\* ------------------------------------------------------------------------
\* ClawSolver._set_mthlim called on its own
\* ------------------------------------------------------------------------
\* limiter identifiers of pyclaw.limiters.tvd: none, minmod, superbee
LimiterIds == 0 .. 2

\* what the user may assign to solver.limiters: one identifier or a list
LimiterSpecs ==
  {Single(v) : v \in LimiterIds}
  \cup {ListOf(sq) : sq \in UNION {[1 .. k -> LimiterIds] : k \in 0 .. MaxLimiters}}

InitMthlim ==
  /\ num_waves \in 1 .. MaxWaves
  /\ limiters \in LimiterSpecs
  /\ mthlim = limiters
  /\ num_cells = 1 /\ num_eqn = 1 /\ fwave = FALSE
  /\ qbc = <<>>
  /\ KernelIdle
  /\ RoutineIdle

\* self._set_mthlim()
MthlimCall ==
  /\ kpc = "none"
  /\ LET r == set_mthlim(limiters, num_waves)
     IN /\ mthlim' = r.mthlim
        /\ result' = IF r.raised THEN LimitersError ELSE "none"
  /\ kpc' = "mthlim"
  /\ UNCHANGED <<gridVars, configVars, kernelArgs, kernelOut, indexVars, q, qbc,
                 dt, cfl, pc, srcCalls, attempts, q_in>>

SpecMthlim == InitMthlim /\ [][MthlimCall]_vars

\* ========================================================================
\* Properties
\* ========================================================================
\* a call of step has returned True or False
Returned == pc = "idle" /\ result \in {"True", "False"}

\* C1, as stated: step returns False if and only if the tracked CFL strictly
\* exceeds cfl_max; a CFL equal to cfl_max is accepted.
C1_RejectsOnlyAbove ==
  Returned => (result = "False" <=> get_cached_max(cfl) > cfl_max)

\* C1, amended: step returns False if and only if the tracked CFL is greater
\* than or equal to cfl_max; it returns True for every CFL below cfl_max.
C1_RejectsAtOrAbove ==
  Returned => (result = "False" <=> get_cached_max(cfl) >= cfl_max)

\* a step rejected with the CFL exactly at cfl_max
C1_Witness ==
  Returned /\ result = "False" /\ get_cached_max(cfl) = cfl_max

\* C2: when step returns False no call of step_source was made after the
\* hyperbolic sub-step (state.q is still what the sub-step copied back), in
\* every splitting mode, and a CFL rejection is the value False, not an
\* exception.
C2_NoSourceAfterRejection ==
  /\ result = "False" =>
        /\ pc = "idle"
        /\ \A i \in DOMAIN srcCalls : srcCalls[i].phase = "before"
        /\ q = set_q_from_qbc(qbc, num_cells)
  /\ (pc = "idle" /\ attempts > 0 /\ kernel_language = "Python"
         /\ get_cached_max(cfl) >= cfl_max) => result = "False"

\* a rejected Strang step: only the first half step was taken
C2_Witness ==
  /\ result = "False" /\ step_source /\ source_split = 2
  /\ Len(srcCalls) = 1

\* the calls of step_source an accepted step makes
ExpectedSourceCalls ==
  IF ~step_source \/ source_split = 0 THEN <<>>
  ELSE IF source_split = 1 THEN <<[dt |-> dt, phase |-> "after"]>>
  ELSE <<[dt |-> Half(dt), phase |-> "before"],
         [dt |-> Half(dt), phase |-> "after"]>>

\* C3: an accepted step calls step_source 0 times with source_split = 0, once
\* with dt after the hyperbolic sub-step with source_split = 1, twice with
\* dt/2, before and after the sub-step, with source_split = 2, and never
\* when no source stepper is configured.
C3_SourceCallsPerStep ==
  (pc = "idle" /\ result = "True") => srcCalls = ExpectedSourceCalls

\* an accepted Strang step with a source stepper
C3_Witness ==
  /\ pc = "idle" /\ result = "True" /\ step_source /\ source_split = 2
  /\ Len(srcCalls) = 2

\* C4: in every attempt the tracker is zero from the reset until the
\* hyperbolic sub-step, before any source call of the attempt, and the value
\* compared against cfl_max is the CFL the sub-step of this attempt reported.
C4_TrackerIsThisAttempt ==
  /\ pc = "strang" => (cfl = 0 /\ srcCalls = <<>> /\ cflOut = 0 - 1)
  /\ pc = "hyperbolic" => (cfl = 0 /\ cflOut = 0 - 1)
  /\ pc = "tail" => (get_cached_max(cfl) = cflOut /\ cflOut >= 0)

\* a second attempt, after one rejected with a CFL of at least 2, about to
\* compare its own nonzero CFL
C4_Witness ==
  /\ pc = "tail" /\ attempts = 2 /\ cfl_max = 2 /\ cflOut = 2
  /\ \E i \in DOMAIN aspeed : aspeed[i] # 0

\* the cells of the ghost-padded arrays
Cells == 0 .. Padded(num_cells) - 1
\* the sweep limits LL and UL of step_hyperbolic
SweepLL == LLof
SweepUL == ULof(num_cells)

\* C5: after the Godunov update every cell n with LL <= n < UL-1 holds
\* q_old - dtdx[n]*apdq[n-1] - dtdx[n]*amdq[n], and the cells outside
\* [LL-1, UL) are unchanged.
C5_GodunovCells ==
  [][(kpc = "args" /\ kpc' = "godunov") =>
       \A m \in 0 .. num_eqn - 1 : \A n \in Cells :
          /\ (n >= SweepLL /\ n < SweepUL - 1) =>
                qbc'[m][n] = qbc[m][n] - dtdx[n] * apdq[m][n - 1]
                                       - dtdx[n] * amdq[m][n]
          /\ (n < SweepLL - 1 \/ n >= SweepUL) => qbc'[m][n] = qbc[m][n]]_vars

\* an update with non-uniform dtdx in which a cell has both contributions
C5_Witness ==
  /\ kpc = "godunov"
  /\ \E n \in SweepLL .. SweepUL - 2 :
        apdq[0][n - 1] # 0 /\ amdq[0][n] # 0 /\ dtdx[n] # dtdx[n - 1]

\* the terms the CFL is the maximum of
CflTerms(p_dtdx, p_s, lo, hi) ==
  {p_dtdx[n] * p_s[mw][n - 1] : mw \in DOMAIN p_s, n \in lo .. hi - 1}
  \cup {(0 - p_dtdx[n - 1]) * p_s[mw][n - 1] : mw \in DOMAIN p_s, n \in lo .. hi - 1}

\* C6: compute_max_wave_speed returns the maximum of 0 and of
\* dtdx[n]*s[mw,n-1] and -dtdx[n-1]*s[mw,n-1] over all families mw and all
\* n in [LL, UL); it is never negative.
C6_MaxWaveSpeed ==
  kpc = "cfl" =>
    /\ cflOut >= 0
    /\ cflOut = SetMax(CflTerms(dtdx, s, SweepLL, SweepUL) \cup {0})

\* two families of opposite sign, the left-going one the fastest
C6_Witness ==
  /\ kpc = "cfl" /\ Cardinality(DOMAIN s) = 2
  /\ \E n \in SweepLL .. SweepUL - 1 :
        /\ s[1][n - 1] < 0 /\ s[0][n - 1] > 0
        /\ cflOut = (0 - dtdx[n - 1]) * s[1][n - 1]
        /\ cflOut > dtdx[n] * s[0][n - 1]

\* a call of step_hyperbolic on its own
HyperbolicStep == kpc = "call" /\ kpc' = "done"
\* what the step starts from and the uniform dt/dx it uses
QbcIn == apply_bcs(q, num_cells, bc)
Dtdx == dt \div delta
Interfaces == 0 .. Padded(num_cells) - 2
ConstantSpeed == \A i \in Interfaces : aspeed[i] = aspeed[0]

\* C7, as stated: the CFL the sub-step reports is the maximum of
\* |speed * dtdx| over all families and all interfaces the Riemann solver
\* returned a speed for.
C7_MaxOverAllInterfaces ==
  [][HyperbolicStep =>
       cflOut' = SetMax({Abs(aspeed[i]) * Dtdx : i \in Interfaces})]_vars

\* C7, amended: with uniform spacing the CFL the sub-step reports is the
\* maximum of |speed| * dt/dx over all families and over the interfaces n-1
\* with n in [LL, UL) only; the interfaces from UL-1 on are not looked at.
\* With one family of constant speed a it is |a| * dt/dx.
C7_MaxOverSweptInterfaces ==
  [][HyperbolicStep =>
       /\ cflOut' = SetMax({Abs(aspeed[n - 1]) * Dtdx : n \in SweepLL .. SweepUL - 1})
       /\ ConstantSpeed => cflOut' = Abs(aspeed[0]) * Dtdx]_vars

\* the last interface carries a speed larger than the CFL reported
C7_Witness ==
  /\ kpc = "done"
  /\ cflOut < Abs(aspeed[Padded(num_cells) - 2]) * Dtdx

\* the correction flux the claim describes, summed over the families
RECURSIVE ExpectedFluxSum(_, _, _)
ExpectedFluxSum(m, n, mw) ==
  IF mw < 0 THEN 0
  ELSE LET sp == s[mw][n - 1]
           c == IF fwave THEN Sign(sp) ELSE Abs(sp)
       IN ExpectedFluxSum(m, n, mw - 1)
          + Half(c * (1 - Abs(sp) * Half(dtdx[n - 1] + dtdx[n]))
                 * wave[m][mw][n - 1])

\* C8: compute_correction_fluxes returns f of shape num_eqn x
\* (num_cells + 2*num_ghost) with, for n in [LL, UL), f[m,n] the sum over
\* the families of 0.5*c*(1 - |s|*0.5*(dtdx[n-1]+dtdx[n]))*wave[m,mw,n-1],
\* c = |s| without fwave and c = sign(s) with fwave, and 0 elsewhere.
C8_CorrectionFluxes ==
  kpc = "flux" =>
    /\ DOMAIN f = 0 .. num_eqn - 1
    /\ \A m \in 0 .. num_eqn - 1 :
          /\ DOMAIN f[m] = Cells
          /\ \A n \in Cells :
                f[m][n] = IF n >= SweepLL /\ n < SweepUL
                          THEN ExpectedFluxSum(m, n, Cardinality(DOMAIN s) - 1)
                          ELSE 0

\* the Godunov flux of q_t + a q_x = 0 at interface i, from the
\* left-going fluctuation of a conservative decomposition
BoundaryFlux(i) == aspeed[0] * QbcIn[0][i] + rp_amdq(QbcIn, aspeed)[0][i]
\* sum of a physical array over its cells
Total(p_q) == SumRange(p_q[0], 0, num_cells)
\* ghost cells and the two edge cells hold one value
IsolatedPulse ==
  \A i \in Cells :
     (i <= num_ghost \/ i >= num_ghost + num_cells - 1) => QbcIn[0][i] = QbcIn[0][0]

\* C9: for constant speed and uniform dtdx the first-order update changes
\* the sum of q over the physical cells by the net flux through the two
\* boundary interfaces only, and leaves it unchanged for an isolated pulse.
C9_FirstOrderConservation ==
  [][(HyperbolicStep /\ order = 1 /\ ConstantSpeed) =>
       /\ Total(q') = Total(q) - Dtdx * (BoundaryFlux(num_ghost + num_cells - 1)
                                         - BoundaryFlux(num_ghost - 1))
       /\ IsolatedPulse => Total(q') = Total(q)]_vars

\* the pulse (0, 2, 0) advected to the right by a first-order step
C9_Witness ==
  /\ kpc = "done" /\ order = 1 /\ ConstantSpeed /\ aspeed[0] = 1
  /\ bc = "extrap" /\ dt = 4 /\ num_cells = 3
  /\ q[0][0] = 0 /\ q[0][1] = 0 - 2 /\ q[0][2] = 4

\* C10: the second-order correction is q[m,n] -= dtdx[n]*(f[m,n+1]-f[m,n])
\* for every cell n in [LL, UL-1) and no other; with uniform dtdx it sums to
\* dtdx*(f[LL]-f[UL-1]) over those cells, and over the physical cells it
\* changes the total only by the fluxes at the two boundary interfaces.
C10_CorrectionTelescopes ==
  [][(HyperbolicStep /\ order = 2) =>
       LET q1 == hyperbolic_first_order(QbcIn, num_cells, num_eqn, dt, delta, aspeed)
           change == [n \in Cells |-> qbc'[0][n] - q1[0][n]]
       IN /\ \A n \in Cells :
                change[n] = IF n >= SweepLL /\ n < SweepUL - 1
                            THEN 0 - Dtdx * (f'[0][n + 1] - f'[0][n])
                            ELSE 0
          /\ SumRange(change, SweepLL, SweepUL - 1) = Dtdx * (f'[0][SweepLL] - f'[0][SweepUL - 1])
          /\ Total(q') - Total(set_q_from_qbc(q1, num_cells))
               = Dtdx * (f'[0][num_ghost] - f'[0][num_ghost + num_cells])]_vars

\* a second-order step whose correction fluxes differ across a physical cell
C10_Witness ==
  /\ kpc = "done" /\ order = 2
  /\ \E n \in num_ghost .. num_ghost + num_cells - 1 : f[0][n + 1] # f[0][n]

\* _set_mthlim has returned or raised
MthlimDone == kpc = "mthlim"
MthlimRaised == result = LimitersError

\* C11: _set_mthlim either leaves a list of exactly num_waves limiter
\* identifiers (a single value or a one-element list repeated num_waves
\* times, a list of length num_waves kept in order) or raises; it raises
\* exactly when the specification is a list whose length is neither 1 nor
\* num_waves, and never returns with a list of another length.
C11_LimitersResolved ==
  MthlimDone =>
    /\ MthlimRaised <=> (limiters.list /\ Len(limiters.ids) \notin {1, num_waves})
    /\ ~MthlimRaised =>
          /\ mthlim.list
          /\ Len(mthlim.ids) = num_waves
          /\ Len(limiters.ids) = 1 =>
                \A i \in 1 .. num_waves : mthlim.ids[i] = limiters.ids[1]
          /\ (limiters.list /\ Len(limiters.ids) = num_waves) =>
                mthlim.ids = limiters.ids

\* a single identifier repeated for two families
C11_Witness ==
  /\ MthlimDone /\ ~MthlimRaised /\ ~limiters.list /\ num_waves = 2
  /\ mthlim.ids = <<limiters.ids[1], limiters.ids[1]>>

\* the configured kernel_language has no implementation
NoImplementationPath ==
  /\ kernel_language # "Fortran"
  /\ (num_dim > 1 \/ kernel_language # "Python")

\* C12, as stated: with a kernel_language that has no implementation (not
\* 'Fortran' in more than one dimension, neither 'Fortran' nor 'Python' in 1D)
\* setup does not return normally, so that no step has been started, no
\* source term integrated and the state is untouched.
C12_SurfacedAtSetup ==
  NoImplementationPath =>
    /\ pc \in {"new", "failed"}
    /\ attempts = 0 /\ srcCalls = <<>> /\ q = q_in

\* state.q after the first half source step (Strang splitting only) and the
\* hyperbolic update of the q the step was called with
RejectedUpdate ==
  LET qs == IF source_split = 2 /\ step_source
            THEN step_source_effect(q_in, Half(dt)) ELSE q_in
  IN set_q_from_qbc(
       hyperbolic_qbc(apply_bcs(qs, num_cells, bc), num_cells, num_eqn, dt,
                      delta, aspeed, order, fwave, mthlim, <<>>),
       num_cells)

\* C14: when step returns False, state.q is the result of the hyperbolic
\* update with the rejected dt (after the first half source step under
\* Strang splitting) of the q the step was called with; nothing is put back,
\* so q differs from what it was whenever that update is not zero.
C14_RejectedStepKeepsUpdate ==
  (Returned /\ result = "False") =>
    /\ q = RejectedUpdate
    /\ RejectedUpdate # q_in => q # q_in

\* a rejected step without source term that has moved q
C14_Witness ==
  /\ Returned /\ result = "False" /\ ~step_source
  /\ q # q_in

\* the indices of dtdx that the Godunov update, the CFL computation, the
\* correction fluxes and their differencing read: LL-1 .. UL-1
DtdxIndicesRead == SweepLL - 1 .. SweepUL - 1

\* C13, as stated: for dt > 0, delta > 0 and a positive capacity field,
\* dtdx holds a defined value > 0 at every index in [LL-1, UL) of the
\* ghost-padded array, without and with a capacity function.
C13_DtdxPositive ==
  kpc = "dtdx" =>
    \A n \in DtdxIndicesRead : n \in DOMAIN dtdx /\ dtdx[n] > 0

\* C15, as stated: for every input and for both values of fwave the compiled
\* path returns the same f as the array-expression fallback, and it reads
\* and writes its work arrays of length UL-LL only at indices in [0, UL-LL).
C15_CompiledEqualsFallback ==
  kpc = "flux" =>
    /\ f = compute_correction_fluxes_fallback(wave, s, dtdx, num_eqn, num_ghost,
                                              num_cells, SweepLL, SweepUL, fwave)
    /\ workIdx \subseteq 0 .. SweepUL - SweepLL - 1

RECURSIVE InterfacesDownward(_, _, _)
\* the per-interface writes of equation m applied in the opposite order:
\* interfaces n = hi-1 down to lo, cell n-1 before cell n
InterfacesDownward(m, n, p_q) ==
  IF n < SweepLL THEN p_q
  ELSE LET q1 == [p_q EXCEPT ![m][n - 1] = @ - dtdx[n - 1] * amdq[m][n - 1]]
           q2 == [q1 EXCEPT ![m][n] = @ - dtdx[n] * apdq[m][n - 1]]
       IN InterfacesDownward(m, n - 1, q2)

\* C17: the compiled Godunov update, which for each interface n in
\* increasing order writes cell n and then cell n-1, leaves q equal to the
\* result of the fallback, which applies all right-going contributions and
\* then all left-going ones; applying the per-interface writes in the
\* opposite order gives the same q.
C17_CompiledEqualsFallback ==
  [][(kpc = "args" /\ kpc' = "godunov") =>
       /\ qbc' = godunov_update_fallback(dtdx, apdq, amdq, num_eqn, SweepLL,
                                         SweepUL, qbc)
       /\ \A m \in 0 .. num_eqn - 1 :
             qbc'[m] = InterfacesDownward(m, SweepUL - 1, qbc)[m]]_vars

\* an update in which one cell is written for two interfaces, with different
\* dtdx on the cell and its left neighbour
C17_Witness ==
  /\ kpc = "godunov"
  /\ \E n \in SweepLL .. SweepUL - 2 :
        /\ apdq[0][n - 1] # 0 /\ amdq[0][n] # 0 /\ dtdx[n] # dtdx[n - 1]
        /\ qbc[0][n] # 2 * n

\* C16, as stated: with LL = num_ghost - 1 and UL = num_ghost + num_cells + 1
\* every subscript the 1D kernel uses is inside its array, for num_ghost >= 2
\* and for num_ghost = 1 with order 1: cell subscripts lie in
\* [0, num_cells + 2*num_ghost), interface subscripts in
\* [0, num_cells + 2*num_ghost - 1).
C16_IndicesInside ==
  /\ cellIdx \subseteq 0 .. padded_cells(solver_num_ghost, num_cells) - 1
  /\ ifaceIdx \subseteq 0 .. riemann_interfaces(solver_num_ghost, num_cells) - 1

====
